---- MODULE Spec2Model ----
(***************************************************************************)
(* Model of download_game_lambda.py: a Lambda handler that issues and      *)
(* redeems single-use download codes kept in one S3 object (the codebank). *)
(* Every invocation reads the whole object, changes its own copy and       *)
(* overwrites the whole object.  Invocations interleave at the storage     *)
(* calls (get_object, put_object, generate_presigned_url).                 *)
(***************************************************************************)
EXTENDS Integers, Sequences, FiniteSets, TLC

\* ---------------------------------------------------------------- bounds
MaxInv == 3
Invocations == 1..MaxInv

\* ------------------------------------------------------------- constants
ExitStorage == 3
ExitUrl == 4
ExpiresIn == 5

\* Strings are sequences of characters.
AddPrefix == <<"/", "a", "d", "d", "_", "c", "o", "d", "e", "=">>
Slash == <<"/">>
GameFile == "game_file"

\* Codes a caller may send, and the request paths: add or download of a
\* code, and the add prefix followed by nothing.
Codes == {<<"x">>, <<"y">>}
Paths == {AddPrefix \o c : c \in Codes \cup {<<>>}} \cup {Slash \o c : c \in Codes}

\* ------------------------------------------------------------- responses
NoLocation == [key |-> "none", expires |-> 0]
NoResponse == [statusCode |-> 0, body |-> "", location |-> NoLocation]
INVALID_DOWNLOAD_CODE ==
    [statusCode |-> 403, body |-> "Invalid download code.", location |-> NoLocation]
EXPIRED_DOWNLOAD_CODE ==
    [statusCode |-> 403, body |-> "Expired download code.", location |-> NoLocation]
UNKNOWN_ERROR ==
    [statusCode |-> 404, body |-> "Unexpected request.", location |-> NoLocation]
SUCCESS_CODE_ADD ==
    [statusCode |-> 200, body |-> "New code added.", location |-> NoLocation]
INVALID_CODE_ADD ==
    [statusCode |-> 403, body |-> "Code is either expired or already active.",
     location |-> NoLocation]
PresignedUrl(key) == [key |-> key, expires |-> ExpiresIn]
ValidatedRedirect(url) == [statusCode |-> 302, body |-> "", location |-> url]

\* ------------------------------------------------------ python list, str
In(list, x) == \E k \in 1..Len(list) : list[k] = x
FirstIndex(list, x) == CHOOSE k \in 1..Len(list) :
                          list[k] = x /\ \A m \in 1..(k - 1) : list[m] # x
\* variant: list.pop(0), drops the head whatever it is
RemoveHead(list, x) == SubSeq(list, 2, Len(list))
\* list.remove(x): drops the first occurrence only
Remove(list, x) == LET k == FirstIndex(list, x)
                   IN  SubSeq(list, 1, k - 1) \o SubSeq(list, k + 1, Len(list))
NoDup(list) == \A k, m \in 1..Len(list) : list[k] = list[m] => k = m
Elems(list) == {list[k] : k \in 1..Len(list)}

StartsWith(s, p) == Len(s) >= Len(p) /\ SubSeq(s, 1, Len(p)) = p
\* str.find(sep, from): least position >= from where sep occurs, 0 if none
RECURSIVE Find(_, _, _)
Find(s, sep, from) ==
    IF from + Len(sep) - 1 > Len(s) THEN 0
    ELSE IF SubSeq(s, from, from + Len(sep) - 1) = sep THEN from
    ELSE Find(s, sep, from + 1)
\* str.split(sep): the list of parts between occurrences of sep
RECURSIVE SplitFrom(_, _, _)
SplitFrom(s, sep, from) ==
    LET k == Find(s, sep, from)
    IN  IF k = 0 THEN <<SubSeq(s, from, Len(s))>>
        ELSE <<SubSeq(s, from, k - 1)>> \o SplitFrom(s, sep, k + Len(sep))
Split(s, sep) == SplitFrom(s, sep, 1)
\* path[1:]
Tail1(s) == SubSeq(s, 2, Len(s))

\* ------------------------------------------------------ stored content
\* The body of the S3 object: a JSON document of the two lists, or bytes
\* that json.loads rejects.
Garbage == [json |-> FALSE, unused_codes |-> <<>>, expired_codes |-> <<>>]
\* variant: the first-time literal lacks the second list
EmptyContentOneList == [json |-> TRUE, unused_codes |-> <<>>]
EmptyContent == [json |-> TRUE, unused_codes |-> <<>>, expired_codes |-> <<>>]
Absent == [exists |-> FALSE, body |-> Garbage]
Object(body) == [exists |-> TRUE, body |-> body]
\* codebank_data[key] raises KeyError when the dict lacks the key
HasKey(cb, key) == key \in DOMAIN cb
\* json.dumps(codebank_data): the keys the dict has
Dumps(cb) ==
    IF HasKey(cb, "expired_codes")
    THEN [json |-> TRUE, unused_codes |-> cb.unused_codes,
          expired_codes |-> cb.expired_codes]
    ELSE [json |-> TRUE, unused_codes |-> cb.unused_codes]
\* json.loads(file_content), defined when the content parses: the keys the
\* document has, nothing checks that both lists are there
Loads(content) ==
    IF HasKey(content, "expired_codes")
    THEN [unused_codes |-> content.unused_codes,
          expired_codes |-> content.expired_codes]
    ELSE [unused_codes |-> content.unused_codes]
NoCodebank == [unused_codes |-> <<>>, expired_codes |-> <<>>]

VARIABLES
    store,        \* the S3 object codebank.json
    pc,           \* where each invocation of lambda_handler stands
    path,         \* event['path'] of the invocation, <<>> until bound
    codebank,     \* the invocation's own codebank dict
    loaded,       \* the codebank as read_write_codebank('read') returned it
    response,     \* the HTTP response the invocation returned
    exitCode,     \* the sys.exit status of the invocation, 0 if none
    getCalls,     \* get_object calls made by the invocation
    putCalls,     \* put_object calls made by the invocation
    persisted,    \* a put_object of the invocation replaced the object
    urlCalls,     \* generate_presigned_url calls made by the invocation
    staleBy,      \* the last invocation that wrote while this one held an
                  \* unwritten copy, 0 if none
    lastWriter,   \* the invocation whose put_object produced the object
    everExpired,  \* codes the object has ever held in expired_codes
    addedCodes,   \* codes for which some add returned SUCCESS_CODE_ADD
    seenAdded     \* the add started after its code was in addedCodes

vars == <<store, pc, path, codebank, loaded, response, exitCode,
          getCalls, putCalls, persisted, urlCalls, staleBy, lastWriter,
          everExpired, addedCodes, seenAdded>>

\* --------------------------------------------------------- initial state
MaxInitCodes == 1
RECURSIVE ListsOver(_, _)
\* duplicate-free lists of at most n codes drawn from S
ListsOver(S, n) ==
    IF n = 0 THEN {<<>>}
    ELSE {<<>>} \cup UNION {{<<c>> \o l : l \in ListsOver(S \ {c}, n - 1)} : c \in S}
\* records the program itself can have written: duplicate-free, disjoint lists
ValidContents ==
    {[json |-> TRUE, unused_codes |-> u, expired_codes |-> e] :
        u \in ListsOver(Codes, MaxInitCodes), e \in ListsOver(Codes, MaxInitCodes)}
InitContents ==
    {b \in ValidContents :
        /\ Elems(b.unused_codes) \cap Elems(b.expired_codes) = {}
        /\ Len(b.unused_codes) + Len(b.expired_codes) <= MaxInitCodes}
InitStores == {Absent, Object(Garbage)} \cup {Object(b) : b \in InitContents}

StoreExpired(st) ==
    IF st.exists /\ st.body.json /\ HasKey(st.body, "expired_codes")
    THEN Elems(st.body.expired_codes) ELSE {}
StoreUnused(st) == IF st.exists /\ st.body.json THEN Elems(st.body.unused_codes) ELSE {}

InitWith(stores) ==
    /\ store \in stores
    /\ pc = [i \in Invocations |-> "start"]
    /\ path = [i \in Invocations |-> <<>>]
    /\ codebank = [i \in Invocations |-> NoCodebank]
    /\ loaded = [i \in Invocations |-> NoCodebank]
    /\ response = [i \in Invocations |-> NoResponse]
    /\ exitCode = [i \in Invocations |-> 0]
    /\ getCalls = [i \in Invocations |-> 0]
    /\ putCalls = [i \in Invocations |-> 0]
    /\ persisted = [i \in Invocations |-> FALSE]
    /\ urlCalls = [i \in Invocations |-> 0]
    /\ staleBy = [i \in Invocations |-> 0]
    /\ lastWriter = 0
    /\ everExpired = StoreExpired(store)
    /\ addedCodes = {}
    /\ seenAdded = [i \in Invocations |-> FALSE]

Init == InitWith(InitStores)

\* Records only an operator's edit of the object can produce.
\* A code in both lists (each list still duplicate-free):
AnomalousContents ==
    {b \in [json : {TRUE},
            unused_codes : ListsOver(Codes, MaxInitCodes + 1),
            expired_codes : ListsOver(Codes, MaxInitCodes)] :
        Elems(b.unused_codes) \cap Elems(b.expired_codes) # {}}
AnomalousStores == {Absent, Object(Garbage)} \cup {Object(b) : b \in AnomalousContents}
InitAnomalous == InitWith(AnomalousStores)
\* A JSON document without the expired_codes list:
KeylessContents ==
    {[json |-> TRUE, unused_codes |-> u] : u \in ListsOver(Codes, MaxInitCodes)}
KeylessStores == InitStores \cup {Object(b) : b \in KeylessContents}
InitKeyless == InitWith(KeylessStores)

\* ------------------------------------------------- read_write_codebank
\* action == 'read', get_object answers: the content read, and whether the
\* call raised NoSuchKey
GetObject(st) == IF st.exists THEN [found |-> TRUE, content |-> st.body]
                 ELSE [found |-> FALSE, content |-> Garbage]
FileContent(st) == IF GetObject(st).found THEN GetObject(st).content ELSE EmptyContent

History == <<staleBy, lastWriter, everExpired, addedCodes>>

\* Invocations are numbered in the order in which the host starts them.
Arrives(i) == pc[i] = "start" /\ \A j \in 1..(i - 1) : pc[j] # "start"

\* The read succeeds and parses: codebank and path are bound for invocation i
ReadOk(i, p) ==
    /\ Arrives(i)
    /\ FileContent(store).json
    /\ path' = [path EXCEPT ![i] = p]
    /\ loaded' = [loaded EXCEPT ![i] = Loads(FileContent(store))]
    /\ getCalls' = [getCalls EXCEPT ![i] = @ + 1]

\* json.loads raises: sys.exit(3)
ReadUnparsable(i) ==
    /\ Arrives(i)
    /\ ~FileContent(store).json
    /\ getCalls' = [getCalls EXCEPT ![i] = @ + 1]
    /\ exitCode' = [exitCode EXCEPT ![i] = ExitStorage]
    /\ pc' = [pc EXCEPT ![i] = "exited"]
    /\ UNCHANGED <<store, path, codebank, loaded, response, putCalls, persisted,
                   urlCalls, seenAdded, History>>

\* get_object raises a ClientError other than NoSuchKey: sys.exit(3)
ReadFail(i) ==
    /\ Arrives(i)
    /\ getCalls' = [getCalls EXCEPT ![i] = @ + 1]
    /\ exitCode' = [exitCode EXCEPT ![i] = ExitStorage]
    /\ pc' = [pc EXCEPT ![i] = "exited"]
    /\ UNCHANGED <<store, path, codebank, loaded, response, putCalls, persisted,
                   urlCalls, seenAdded, History>>

\* variant: the write keeps the codes of the current object that the
\* written codebank does not mention
PutObjectMerging(st, cb) ==
    IF st.exists /\ st.body.json
    THEN Object([json |-> TRUE,
                 unused_codes |-> cb.unused_codes \o
                     SelectSeq(st.body.unused_codes,
                               LAMBDA c : ~In(cb.unused_codes, c) /\ ~In(cb.expired_codes, c)),
                 expired_codes |-> cb.expired_codes \o
                     SelectSeq(st.body.expired_codes,
                               LAMBDA c : ~In(cb.unused_codes, c) /\ ~In(cb.expired_codes, c))])
    ELSE Object(Dumps(cb))
\* action == 'write', put_object succeeds: the whole object is replaced
PutObject(st, cb) == Object(Dumps(cb))

\* ------------------------------------------------------- add_new_code
\* new_code = path.split('/add_code=')[1]; absent part = IndexError
ParseOk(p) == Len(Split(p, AddPrefix)) >= 2
NewCode(p) == Split(p, AddPrefix)[2]
\* variant: only the retired codes are looked at
AddKnownExpiredOnly(cb, code) == In(cb.expired_codes, code)
\* variant: only the active codes are looked at
AddKnownUnusedOnly(cb, code) == In(cb.unused_codes, code)
AddKnown(cb, code) == In(cb.expired_codes, code) \/ In(cb.unused_codes, code)
\* variant: list.insert(0, new_code)
AddPrepend(cb, code) == [cb EXCEPT !.unused_codes = <<code>> \o @]
AddAppend(cb, code) == [cb EXCEPT !.unused_codes = Append(@, code)]

IsAdd(p) == StartsWith(p, AddPrefix)

\* lambda_handler for an add request, up to the write: read the codebank,
\* then add_new_code decides and changes its copy
AddNewCode(i, p) ==
    /\ ReadOk(i, p)
    /\ IsAdd(p)
    /\ seenAdded' = [seenAdded EXCEPT ![i] = ParseOk(p) /\ NewCode(p) \in addedCodes]
    /\ LET new_code == NewCode(p)
       IN  IF ~ParseOk(p)
           THEN /\ response' = [response EXCEPT ![i] = UNKNOWN_ERROR]
                /\ pc' = [pc EXCEPT ![i] = "done"]
                /\ codebank' = [codebank EXCEPT ![i] = loaded'[i]]
           ELSE IF ~HasKey(loaded'[i], "expired_codes")
           THEN \* KeyError, caught nowhere
                /\ pc' = [pc EXCEPT ![i] = "raised"]
                /\ codebank' = [codebank EXCEPT ![i] = loaded'[i]]
                /\ UNCHANGED response
           ELSE IF AddKnown(loaded'[i], new_code)
           THEN /\ response' = [response EXCEPT ![i] = INVALID_CODE_ADD]
                /\ pc' = [pc EXCEPT ![i] = "done"]
                /\ codebank' = [codebank EXCEPT ![i] = loaded'[i]]
           ELSE /\ codebank' = [codebank EXCEPT ![i] = AddAppend(loaded'[i], new_code)]
                /\ pc' = [pc EXCEPT ![i] = "add_write"]
                /\ UNCHANGED response
    /\ UNCHANGED <<store, exitCode, putCalls, persisted, urlCalls, History>>

\* invocations that hold a changed copy they have not written yet
Unpersisted == {"add_write", "act_write"}
\* staleBy after a write by i: every other invocation still holding an
\* unwritten copy now holds a stale one, made stale by i
Overwrites(i) ==
    [k \in Invocations |->
        IF k # i /\ pc[k] \in Unpersisted THEN i ELSE staleBy[k]]

\* the write of add_new_code succeeds, SUCCESS_CODE_ADD is returned
AddWriteOk(i) ==
    /\ pc[i] = "add_write"
    /\ store' = PutObject(store, codebank[i])
    /\ putCalls' = [putCalls EXCEPT ![i] = @ + 1]
    /\ persisted' = [persisted EXCEPT ![i] = TRUE]
    /\ response' = [response EXCEPT ![i] = SUCCESS_CODE_ADD]
    /\ pc' = [pc EXCEPT ![i] = "done"]
    /\ staleBy' = Overwrites(i)
    /\ lastWriter' = i
    /\ everExpired' = everExpired \cup StoreExpired(store')
    /\ addedCodes' = addedCodes \cup {NewCode(path[i])}
    /\ UNCHANGED <<path, codebank, loaded, exitCode, getCalls, urlCalls, seenAdded>>

\* variant: the ClientError of put_object is logged and the caller goes on
WriteFailIgnored(i) ==
    /\ pc[i] \in {"add_write", "act_write"}
    /\ putCalls' = [putCalls EXCEPT ![i] = @ + 1]
    /\ IF pc[i] = "add_write"
       THEN /\ response' = [response EXCEPT ![i] = SUCCESS_CODE_ADD]
            /\ pc' = [pc EXCEPT ![i] = "done"]
       ELSE /\ pc' = [pc EXCEPT ![i] = "gen_url"]
            /\ UNCHANGED response
    /\ UNCHANGED <<store, path, codebank, loaded, exitCode, getCalls, persisted,
                   urlCalls, seenAdded, History>>
\* variant: the failed put_object is tried once more
WriteFailRetries(i) ==
    /\ pc[i] \in {"add_write", "act_write"}
    /\ putCalls[i] < 2
    /\ putCalls' = [putCalls EXCEPT ![i] = @ + 1]
    /\ UNCHANGED <<store, pc, path, codebank, loaded, response, exitCode, getCalls,
                   persisted, urlCalls, seenAdded, History>>
\* put_object raises ClientError: sys.exit(3), the object is not replaced
WriteFail(i) ==
    /\ pc[i] \in {"add_write", "act_write"}
    /\ putCalls' = [putCalls EXCEPT ![i] = @ + 1]
    /\ exitCode' = [exitCode EXCEPT ![i] = ExitStorage]
    /\ pc' = [pc EXCEPT ![i] = "exited"]
    /\ UNCHANGED <<store, path, codebank, loaded, response, getCalls, persisted,
                   urlCalls, seenAdded, History>>

\* ---------------------------------------------------- expire_used_code
\* FALSE when the code is already expired, otherwise the updated codebank
\* variant: the double check is missing
AlreadyExpiredNever(cb, code) == FALSE
AlreadyExpired(cb, code) == In(cb.expired_codes, code)
\* variant: the code is appended to expired_codes and left in unused_codes
ExpireUsedCodeKeepsUnused(cb, code) ==
    [unused_codes |-> cb.unused_codes,
     expired_codes |-> Append(cb.expired_codes, code)]
ExpireUsedCode(cb, code) ==
    [unused_codes |-> Remove(cb.unused_codes, code),
     expired_codes |-> Append(cb.expired_codes, code)]

\* ------------------------------------------------------- activate_code
\* the for loop: first entry of unused_codes equal to input_code, 0 if none
RECURSIVE ScanFrom(_, _, _)
ScanFrom(list, input, k) ==
    IF k > Len(list) THEN 0
    ELSE IF input = list[k] THEN k ELSE ScanFrom(list, input, k + 1)
\* variant: the scan runs over both lists
MatchesEitherList(cb, input) ==
    ScanFrom(cb.unused_codes \o cb.expired_codes, input, 1) # 0
Matches(cb, input) == ScanFrom(cb.unused_codes, input, 1) # 0

InputCode(p) == Tail1(p)
\* variant: only the invalid rejection is returned as it is
PropagatesInvalidOnly(activate_response) ==
    activate_response = INVALID_DOWNLOAD_CODE
\* variant: only the expired rejection is returned as it is
PropagatesExpiredOnly(activate_response) ==
    activate_response = EXPIRED_DOWNLOAD_CODE
\* download_game_file returns the response of activate_code as it is when
\* it is one of the two rejections
Propagates(activate_response) ==
    \/ activate_response = INVALID_DOWNLOAD_CODE
    \/ activate_response = EXPIRED_DOWNLOAD_CODE

\* lambda_handler for a download request, up to the write inside
\* activate_code: read the codebank, scan it and move the code in the copy
ActivateCode(i, p) ==
    /\ ReadOk(i, p)
    /\ ~IsAdd(p)
    /\ UNCHANGED seenAdded
    /\ LET input_code == InputCode(p)
           cb == loaded'[i]
       IN  IF Matches(cb, input_code) /\ ~HasKey(cb, "expired_codes")
           THEN \* KeyError in expire_used_code, caught nowhere
                /\ pc' = [pc EXCEPT ![i] = "raised"]
                /\ codebank' = [codebank EXCEPT ![i] = cb]
                /\ UNCHANGED response
           ELSE IF Matches(cb, input_code) /\ ~AlreadyExpired(cb, input_code)
           THEN /\ codebank' = [codebank EXCEPT ![i] = ExpireUsedCode(cb, input_code)]
                /\ pc' = [pc EXCEPT ![i] = "act_write"]
                /\ UNCHANGED response
           ELSE LET activate_response ==
                        IF Matches(cb, input_code) THEN EXPIRED_DOWNLOAD_CODE
                        ELSE INVALID_DOWNLOAD_CODE
                IN  /\ codebank' = [codebank EXCEPT ![i] = cb]
                    /\ IF Propagates(activate_response)
                       THEN /\ response' = [response EXCEPT ![i] = activate_response]
                            /\ pc' = [pc EXCEPT ![i] = "done"]
                       ELSE /\ pc' = [pc EXCEPT ![i] = "gen_url"]
                            /\ UNCHANGED response
    /\ UNCHANGED <<store, exitCode, putCalls, persisted, urlCalls, History>>

\* the write of activate_code succeeds, True is returned
ActivateWriteOk(i) ==
    /\ pc[i] = "act_write"
    /\ store' = PutObject(store, codebank[i])
    /\ putCalls' = [putCalls EXCEPT ![i] = @ + 1]
    /\ persisted' = [persisted EXCEPT ![i] = TRUE]
    /\ pc' = [pc EXCEPT ![i] = "gen_url"]
    /\ staleBy' = Overwrites(i)
    /\ lastWriter' = i
    /\ everExpired' = everExpired \cup StoreExpired(store')
    /\ UNCHANGED <<path, codebank, loaded, response, exitCode, getCalls, urlCalls,
                   addedCodes, seenAdded>>

\* -------------------------------------------------- download_game_file
\* generate_presigned_url succeeds: the 302 redirect is returned
GenerateUrlOk(i) ==
    /\ pc[i] = "gen_url"
    /\ urlCalls' = [urlCalls EXCEPT ![i] = @ + 1]
    /\ response' = [response EXCEPT ![i] = ValidatedRedirect(PresignedUrl(GameFile))]
    /\ pc' = [pc EXCEPT ![i] = "done"]
    /\ UNCHANGED <<store, path, codebank, loaded, exitCode, getCalls, putCalls,
                   persisted, seenAdded, History>>

\* generate_presigned_url raises ClientError: sys.exit(4)
GenerateUrlFail(i) ==
    /\ pc[i] = "gen_url"
    /\ urlCalls' = [urlCalls EXCEPT ![i] = @ + 1]
    /\ exitCode' = [exitCode EXCEPT ![i] = ExitUrl]
    /\ pc' = [pc EXCEPT ![i] = "exited"]
    /\ UNCHANGED <<store, path, codebank, loaded, response, getCalls, putCalls,
                   persisted, seenAdded, History>>

\* ---------------------------------------------------------------- system
Next ==
    \E i \in Invocations :
        \/ ReadUnparsable(i)
        \/ ReadFail(i)
        \/ \E p \in Paths : AddNewCode(i, p)
        \/ AddWriteOk(i)
        \/ WriteFail(i)
        \/ \E p \in Paths : ActivateCode(i, p)
        \/ ActivateWriteOk(i)
        \/ GenerateUrlOk(i)
        \/ GenerateUrlFail(i)

Spec == Init /\ [][Next]_vars
\* the same program started on a record holding a code in both lists
SpecAnomalous == InitAnomalous /\ [][Next]_vars
\* the same program started on a JSON document that lacks a list
SpecKeyless == InitKeyless /\ [][Next]_vars

TypeOK ==
    /\ pc \in [Invocations -> {"start", "add_write", "act_write",
                               "gen_url", "done", "exited", "raised"}]
    /\ \A i \in Invocations : exitCode[i] \in {0, ExitStorage, ExitUrl}
    /\ \A i \in Invocations : putCalls[i] \in 0..1 /\ urlCalls[i] \in 0..1
    /\ \A i \in Invocations : getCalls[i] \in 0..1 /\ persisted[i] \in BOOLEAN

\* ------------------------------------------------------ reading the state
\* invocation i got past the read with a parsed codebank
\* what lambda_handler, add_new_code and download_game_file make of each
\* request path, computed once
Parsed ==
    [p \in Paths \cup {<<>>} |->
        [is_add |-> IsAdd(p),
         new_code |-> IF IsAdd(p) THEN NewCode(p) ELSE <<>>,
         input_code |-> InputCode(p)]]
Bound(i) == path[i] # <<>>
AddInv(i) == Bound(i) /\ Parsed[path[i]].is_add
RedeemInv(i) == Bound(i) /\ ~Parsed[path[i]].is_add
NewCodeOf(i) == Parsed[path[i]].new_code
InputCodeOf(i) == Parsed[path[i]].input_code
Added(i) == response[i] = SUCCESS_CODE_ADD
Redeemed(i) == response[i].statusCode = 302
Without(list, x) == SelectSeq(list, LAMBDA y : y # x)
WroteLast(i) == lastWriter = i => store = Object(Dumps(codebank[i]))

\* ---------------------------------------------------------------- C1
\* C1: in every reachable state of the durable record no code is in both
\* unused_codes and expired_codes.
C1_Disjoint == StoreUnused(store) \cap StoreExpired(store) = {}

\* an add and a redeem have both been persisted and both lists are populated
C1_Witness ==
    /\ \E i, j \in Invocations : Added(i) /\ Redeemed(j)
    /\ StoreUnused(store) # {}
    /\ StoreExpired(store) # {}

\* ---------------------------------------------------------------- C2
\* C2: for every code, at most one redeem invocation of it ends with the
\* 302 redirect, concurrent invocations included.
C2_RedeemedOnce ==
    \A i, j \in Invocations :
        (i # j /\ RedeemInv(i) /\ RedeemInv(j) /\ Redeemed(i) /\ Redeemed(j))
            => InputCodeOf(i) # InputCodeOf(j)

\* ---------------------------------------------------------------- C3
\* C3: once the durable record holds a code in expired_codes, no later
\* state of the record holds it in unused_codes.
C3_NeverBackToUnused == everExpired \cap StoreUnused(store) = {}

\* ---------------------------------------------------------------- C4
\* C4: after an add of code c returned Added, every add of c that starts
\* later is not answered Added.
C4_RetiredFromIssuance ==
    \A i \in Invocations :
        (AddInv(i) /\ Added(i)) => ~seenAdded[i]

\* ---------------------------------------------------------------- C5
\* C5: during and after a redeem of code c that found c in unused_codes,
\* the durable record holds c in exactly one of the two lists.
C5_MoveAtomic ==
    \A i \in Invocations :
        (RedeemInv(i) /\ Matches(loaded[i], InputCodeOf(i)))
            => (InputCodeOf(i) \in StoreUnused(store))
                   # (InputCodeOf(i) \in StoreExpired(store))

\* ---------------------------------------------------------------- C6
\* i and j both had loaded before either wrote: j wrote while i held its
\* unwritten copy, then i wrote last; both answered success, on different codes
CodeOf(i) == IF Parsed[path[i]].is_add THEN NewCodeOf(i) ELSE InputCodeOf(i)
Raced(i, j) ==
    /\ lastWriter = i
    /\ staleBy[i] = j
    /\ i # j /\ Bound(i) /\ Bound(j)
    /\ (Added(i) \/ Redeemed(i)) /\ (Added(j) \/ Redeemed(j))
    /\ CodeOf(i) # CodeOf(j)
\* what i's own operation makes of the record i loaded
OwnChange(i) ==
    IF Parsed[path[i]].is_add
    THEN [unused_codes |-> loaded[i].unused_codes \o <<CodeOf(i)>>,
          expired_codes |-> loaded[i].expired_codes]
    ELSE [unused_codes |-> Without(loaded[i].unused_codes, CodeOf(i)),
          expired_codes |-> loaded[i].expired_codes \o <<CodeOf(i)>>]

\* C6: when two successful invocations on different codes both loaded
\* before either persisted, the durable record is the last writer's loaded
\* record with the last writer's change only.
C6_LastWriteWins ==
    \A i, j \in Invocations :
        Raced(i, j) => store = Object([json |-> TRUE,
                                       unused_codes |-> OwnChange(i).unused_codes,
                                       expired_codes |-> OwnChange(i).expired_codes])

\* the other invocation's change is gone from the durable record
C6_Witness ==
    \E i, j \in Invocations :
        /\ Raced(i, j)
        /\ IF Parsed[path[j]].is_add
           THEN CodeOf(j) \notin StoreUnused(store) \cup StoreExpired(store)
           ELSE CodeOf(j) \notin StoreExpired(store)

\* ---------------------------------------------------------------- C7
\* C7: add(c) for c in neither list of the loaded codebank appends c to
\* unused_codes, leaves the rest as loaded, persists once and answers
\* 200 "New code added."; the only other ending is the fatal write failure.
C7_AddFresh ==
    \A i \in Invocations :
        LET c == NewCodeOf(i) IN
        (AddInv(i) /\ ~In(loaded[i].unused_codes, c)
                   /\ ~In(loaded[i].expired_codes, c))
        => /\ codebank[i].unused_codes = loaded[i].unused_codes \o <<c>>
           /\ codebank[i].expired_codes = loaded[i].expired_codes
           /\ pc[i] \in {"add_write", "done", "exited"}
           /\ pc[i] = "add_write" => putCalls[i] = 0 /\ response[i] = NoResponse
           /\ pc[i] = "done" => /\ response[i] = SUCCESS_CODE_ADD
                                /\ response[i].statusCode = 200
                                /\ response[i].body = "New code added."
                                /\ putCalls[i] = 1
           /\ pc[i] = "exited" => /\ exitCode[i] = ExitStorage
                                  /\ response[i] = NoResponse
                                  /\ putCalls[i] = 1
           /\ WroteLast(i)

\* a fresh code was added to a bank that already held other codes
C7_Witness ==
    \E i \in Invocations :
        /\ AddInv(i) /\ Added(i) /\ lastWriter = i
        /\ loaded[i].unused_codes # <<>>
        /\ loaded[i].expired_codes # <<>>

\* ---------------------------------------------------------------- C8
\* C8: add(c) for c already in unused_codes or expired_codes answers
\* 403 "Code is either expired or already active.", never calls the write,
\* and leaves its codebank as loaded.
C8_AddKnownRejected ==
    \A i \in Invocations :
        LET c == NewCodeOf(i) IN
        (AddInv(i) /\ (In(loaded[i].unused_codes, c) \/ In(loaded[i].expired_codes, c)))
        => /\ pc[i] = "done"
           /\ response[i] = INVALID_CODE_ADD
           /\ response[i].statusCode = 403
           /\ response[i].body = "Code is either expired or already active."
           /\ putCalls[i] = 0
           /\ lastWriter # i
           /\ codebank[i] = loaded[i]

\* rejected both for an expired code and for an active one
C8_Witness ==
    /\ \E i \in Invocations :
           AddInv(i) /\ response[i] = INVALID_CODE_ADD
                     /\ In(loaded[i].expired_codes, NewCodeOf(i))
    /\ \E i \in Invocations :
           AddInv(i) /\ response[i] = INVALID_CODE_ADD
                     /\ In(loaded[i].unused_codes, NewCodeOf(i))

\* ---------------------------------------------------------------- C9
\* C9: an add request whose code is the empty string answers
\* 404 "Unexpected request.", inserts nothing and never calls the write.
C9_EmptyCodeMalformed ==
    \A i \in Invocations :
        (AddInv(i) /\ NewCodeOf(i) = <<>>)
        => /\ pc[i] = "done"
           /\ response[i] = UNKNOWN_ERROR
           /\ putCalls[i] = 0
           /\ codebank[i] = loaded[i]

\* ---------------------------------------------------------------- C10
\* C10: redeem(c) for c in unused_codes and not in expired_codes removes c
\* from unused_codes, appends it to expired_codes, leaves every other code
\* in place, persists once and answers 302 with the temporary URL as
\* Location; the only other endings are the fatal write or URL failures.
C10_RedeemUnused ==
    \A i \in Invocations :
        LET c == InputCodeOf(i) IN
        (RedeemInv(i) /\ In(loaded[i].unused_codes, c) /\ ~In(loaded[i].expired_codes, c))
        => /\ codebank[i].unused_codes = Without(loaded[i].unused_codes, c)
           /\ Len(codebank[i].unused_codes) = Len(loaded[i].unused_codes) - 1
           /\ codebank[i].expired_codes = loaded[i].expired_codes \o <<c>>
           /\ ~In(codebank[i].unused_codes, c)
           /\ pc[i] \in {"act_write", "gen_url", "done", "exited"}
           /\ pc[i] = "act_write" => putCalls[i] = 0 /\ urlCalls[i] = 0
           /\ pc[i] = "gen_url" => putCalls[i] = 1 /\ urlCalls[i] = 0
           /\ pc[i] = "done" => /\ response[i].statusCode = 302
                                /\ response[i].location = [key |-> GameFile, expires |-> 5]
                                /\ putCalls[i] = 1
                                /\ urlCalls[i] = 1
           /\ pc[i] = "exited" => /\ response[i] = NoResponse
                                  /\ putCalls[i] = 1
                                  /\ exitCode[i] = IF urlCalls[i] = 1 THEN ExitUrl
                                                   ELSE ExitStorage
           /\ WroteLast(i)

\* a code was redeemed out of a bank holding other unused and expired codes
C10_Witness ==
    \E i \in Invocations :
        /\ RedeemInv(i) /\ Redeemed(i) /\ lastWriter = i
        /\ Len(loaded[i].unused_codes) >= 2
        /\ store.body.expired_codes = <<InputCodeOf(i)>>

\* ---------------------------------------------------------------- C11
\* C11: redeem(c) for c in neither list of the loaded codebank answers
\* 403 "Invalid download code.", never writes, never asks for a URL and
\* leaves its codebank as loaded.
C11_RedeemUnknown ==
    \A i \in Invocations :
        LET c == InputCodeOf(i) IN
        (RedeemInv(i) /\ ~In(loaded[i].unused_codes, c) /\ ~In(loaded[i].expired_codes, c))
        => /\ pc[i] = "done"
           /\ response[i].statusCode = 403
           /\ response[i].body = "Invalid download code."
           /\ response[i].location = NoLocation
           /\ putCalls[i] = 0
           /\ ~persisted[i]
           /\ lastWriter # i
           /\ urlCalls[i] = 0
           /\ codebank[i] = loaded[i]

\* an unknown code was refused by a bank that holds other codes
C11_Witness ==
    \E i \in Invocations :
        /\ RedeemInv(i) /\ pc[i] = "done"
        /\ ~In(loaded[i].unused_codes, InputCodeOf(i))
        /\ ~In(loaded[i].expired_codes, InputCodeOf(i))
        /\ loaded[i].unused_codes # <<>>

\* ---------------------------------------------------------------- C12
\* C12: redeem(c) for c in expired_codes answers a 403 rejection every
\* time ("Expired download code." when c is also in unused_codes,
\* "Invalid download code." otherwise), leaves both lists as loaded and
\* never writes.
C12_ExpiredRejected ==
    \A i \in Invocations :
        LET c == InputCodeOf(i) IN
        (RedeemInv(i) /\ In(loaded[i].expired_codes, c))
        => /\ pc[i] = "done"
           /\ response[i].statusCode = 403
           /\ response[i].body = IF In(loaded[i].unused_codes, c)
                                 THEN "Expired download code."
                                 ELSE "Invalid download code."
           /\ response[i].location = NoLocation
           /\ codebank[i] = loaded[i]
           /\ putCalls[i] = 0
           /\ ~persisted[i]
           /\ lastWriter # i
           /\ urlCalls[i] = 0

\* the same expired code was refused twice, the second time after the
\* first refusal was returned, on an unchanged record
C12_Witness ==
    \E i, j \in Invocations :
        /\ i < j
        /\ RedeemInv(i) /\ RedeemInv(j) /\ path[i] = path[j]
        /\ pc[i] = "done" /\ pc[j] = "done"
        /\ In(loaded[i].expired_codes, InputCodeOf(i))
        /\ loaded[j] = loaded[i]
        /\ store = Object(Dumps(loaded[i]))

\* ---------------------------------------------------------------- C13
\* C13: a success response is only returned by an invocation whose
\* put_object replaced the object; a put_object that fails leaves the
\* object as it was and ends the invocation with sys.exit(3) and no response.
C13_NoSuccessWithoutWrite ==
    [][\A i \in Invocations :
          /\ (response'[i] # response[i] /\ (Added(i)' \/ Redeemed(i)'))
                => persisted'[i] /\ putCalls'[i] = 1 /\ exitCode'[i] = 0
          /\ (putCalls'[i] # putCalls[i] /\ ~persisted'[i])
                => /\ store' = store
                   /\ pc'[i] = "exited"
                   /\ exitCode'[i] = ExitStorage
                   /\ response'[i] = NoResponse
          /\ (putCalls'[i] # putCalls[i] /\ persisted'[i])
                => store' = Object([json |-> TRUE,
                                    unused_codes |-> codebank[i].unused_codes,
                                    expired_codes |-> codebank[i].expired_codes])
      ]_vars

\* one write failed on a changed copy that the object does not show, and
\* other invocations answered Added and Redeemed
C13_Witness ==
    /\ \E i \in Invocations :
          /\ putCalls[i] = 1 /\ ~persisted[i] /\ exitCode[i] = ExitStorage
          /\ codebank[i] # loaded[i]
          /\ store # Object(Dumps(codebank[i]))
    /\ \E j, k \in Invocations : Added(j) /\ Redeemed(k)

\* ---------------------------------------------------------------- C14
\* C14: when URL generation fails after the redeem, the invocation ends
\* with sys.exit(4), distinct from the storage status, without a response,
\* and the durable record holds the code in expired_codes and not in
\* unused_codes.
C14_UrlFailureCodeConsumed ==
    \A i \in Invocations :
        exitCode[i] = ExitUrl
        => /\ ExitUrl # ExitStorage
           /\ response[i] = NoResponse
           /\ persisted[i]
           /\ InputCodeOf(i) \in StoreExpired(store)
           /\ InputCodeOf(i) \notin StoreUnused(store)

\* ---------------------------------------------------------------- C15
\* C15: a read of the absent object writes nothing and yields the codebank
\* with both lists empty; add and redeem then behave, and write, exactly as
\* on a stored record with both lists empty.
C15_AbsentIsEmpty ==
    [][\A i \in Invocations :
          /\ (getCalls'[i] # getCalls[i] /\ Bound(i)'
                /\ (~store.exists
                    \/ store = Object([json |-> TRUE, unused_codes |-> <<>>,
                                       expired_codes |-> <<>>])))
                => /\ store' = store
                   /\ loaded'[i] = [unused_codes |-> <<>>, expired_codes |-> <<>>]
                   /\ IsAdd(path'[i])
                        => /\ pc'[i] = "add_write"
                           /\ codebank'[i] = [unused_codes |-> <<NewCode(path'[i])>>,
                                              expired_codes |-> <<>>]
                   /\ ~IsAdd(path'[i])
                        => /\ pc'[i] = "done"
                           /\ response'[i] = INVALID_DOWNLOAD_CODE
                           /\ codebank'[i] = loaded'[i]
          /\ (persisted'[i] /\ ~persisted[i] /\ loaded[i].unused_codes = <<>>
                /\ loaded[i].expired_codes = <<>>)
                => store' = Object([json |-> TRUE,
                                    unused_codes |-> <<NewCodeOf(i)>>,
                                    expired_codes |-> <<>>])
      ]_vars

\* the object is still absent after an add and a redeem have read it
C15_Witness ==
    /\ ~store.exists
    /\ \E i, j \in Invocations :
          /\ AddInv(i) /\ pc[i] = "add_write"
          /\ RedeemInv(j) /\ pc[j] = "done"

\* ---------------------------------------------------------------- C16
TwoLists(body) ==
    body.json /\ HasKey(body, "unused_codes") /\ HasKey(body, "expired_codes")
\* C16: when the object is there but is not the two-list document, or the
\* read fails, the invocation halts without a response and without a write.
C16_UnusableRecordHalts ==
    \A i \in Invocations :
        /\ (store.exists /\ ~TwoLists(store.body) /\ pc[i] # "start")
              => /\ pc[i] \in {"exited", "raised"}
                 /\ response[i] = NoResponse
                 /\ putCalls[i] = 0
        /\ (exitCode[i] = ExitStorage /\ putCalls[i] = 0)
              => /\ response[i] = NoResponse
                 /\ codebank[i] = NoCodebank
                 /\ lastWriter # i

\* ---------------------------------------------------------------- C17
\* C17: redeem(c) for c in unused_codes and also in expired_codes answers
\* 403 "Expired download code.", leaves both lists as loaded, never writes
\* and never asks for a URL.
C17_DoubleCheck ==
    \A i \in Invocations :
        LET c == InputCodeOf(i) IN
        (RedeemInv(i) /\ In(loaded[i].unused_codes, c) /\ In(loaded[i].expired_codes, c))
        => /\ pc[i] = "done"
           /\ response[i].statusCode = 403
           /\ response[i].body = "Expired download code."
           /\ response[i].location = NoLocation
           /\ codebank[i].unused_codes = loaded[i].unused_codes
           /\ codebank[i].expired_codes = loaded[i].expired_codes
           /\ putCalls[i] = 0
           /\ ~persisted[i]
           /\ urlCalls[i] = 0

\* a code held in both lists was refused and the object is as it was
C17_Witness ==
    \E i \in Invocations :
        /\ RedeemInv(i) /\ pc[i] = "done"
        /\ In(loaded[i].unused_codes, InputCodeOf(i))
        /\ In(loaded[i].expired_codes, InputCodeOf(i))
        /\ store = Object(Dumps(loaded[i]))

\* ---------------------------------------------------------------- C18
\* C18: generate_presigned_url is called only by an invocation whose
\* put_object of the codebank with the code moved to expired_codes has
\* succeeded before; a rejected redeem returns its 403 without the call.
C18_UrlOnlyAfterRedeem ==
    [][\A i \in Invocations :
          /\ urlCalls'[i] # urlCalls[i]
                => /\ persisted[i]
                   /\ RedeemInv(i)
                   /\ In(codebank[i].expired_codes, InputCodeOf(i))
                   /\ ~In(codebank[i].unused_codes, InputCodeOf(i))
          /\ (response'[i] # response[i] /\ RedeemInv(i)' /\ ~persisted'[i])
                => /\ response'[i].statusCode = 403
                   /\ response'[i].body \in {"Invalid download code.",
                                             "Expired download code."}
                   /\ pc'[i] = "done"
                   /\ urlCalls'[i] = 0
      ]_vars

\* a redirect was returned, and both rejections were returned without a URL
C18_Witness ==
    \E i, j, k \in Invocations :
        /\ Redeemed(i) /\ urlCalls[i] = 1
        /\ response[j].body = "Invalid download code." /\ urlCalls[j] = 0
        /\ response[k].body = "Expired download code." /\ urlCalls[k] = 0

\* ---------------------------------------------------------------- C19
\* C19: an invocation calls get_object once and first, put_object at most
\* once, after the read and only for a changed copy, applies at most one
\* add or one redeem to its copy, and repeats no failed call.
C19_OnePass ==
    \A i \in Invocations :
        /\ getCalls[i] = IF pc[i] = "start" THEN 0 ELSE 1
        /\ putCalls[i] <= 1
        /\ putCalls[i] = 1 => getCalls[i] = 1 /\ Bound(i) /\ codebank[i] # loaded[i]
        /\ urlCalls[i] = 1 => putCalls[i] = 1
        /\ Bound(i) => codebank[i] = loaded[i] \/ codebank[i] = OwnChange(i)
        /\ ~Bound(i) => codebank[i] = NoCodebank /\ putCalls[i] = 0
        /\ pc[i] = "exited" => getCalls[i] + putCalls[i] + urlCalls[i] <= 3

\* one invocation failed its read, one its write, one went all the way
C19_Witness ==
    \E i, j, k \in Invocations :
        /\ pc[i] = "exited" /\ getCalls[i] = 1 /\ ~Bound(i)
        /\ pc[j] = "exited" /\ putCalls[j] = 1 /\ ~persisted[j]
        /\ Redeemed(k) /\ persisted[k]

\* ---------------------------------------------------------------- C20
\* C20: no code appears twice in unused_codes or twice in expired_codes of
\* the durable record.
C20_NoDuplicates ==
    (store.exists /\ store.body.json)
        => NoDup(store.body.unused_codes) /\ NoDup(store.body.expired_codes)

\* the object was written by racing adds of the same code and holds two
\* unused codes
C20_Witness ==
    /\ lastWriter # 0
    /\ Len(store.body.unused_codes) >= 2
    /\ \E i, j \in Invocations :
          i # j /\ Added(i) /\ Added(j) /\ path[i] = path[j]
====
